---- MODULE Spec2Model ----
(***************************************************************************)
(* Release-commit orchestration and changelog rewriting of                 *)
(* tmlt.nox_utils._release (push_release_commits,                          *)
(* _update_changelog_unreleased, _add_changelog_unreleased).               *)
(*                                                                         *)
(* Python strings are TLA+ strings (Len, \o and SubSeq act on them), a     *)
(* text file is the sequence of lines readlines() returns: every line but  *)
(* possibly the last ends in "\n".                                         *)
(***************************************************************************)
EXTENDS Integers, Sequences, FiniteSets, TLC

VARIABLES
    pc,             \* position in push_release_commits, or "done" / "aborted"
    version,        \* the version argument
    is_prerelease,  \* local of push_release_commits (line 33)
    current_branch, \* local of push_release_commits (line 37)
    release_branch, \* local of push_release_commits (line 73)
    head,           \* repo.head.reference: name of the checked-out branch
    heads,          \* local branches: name -> commit id
    tags,           \* local tags: name -> commit id
    commits,        \* commit id -> [parent, message, changelog]
    index,          \* CHANGELOG.rst as staged in the index
    file,           \* CHANGELOG.rst on disk
    modified,       \* some other tracked file differs from HEAD
    untracked,      \* the working tree holds untracked files
    originExists,   \* a remote named origin is configured
    originRefs,     \* remote-tracking branches refs/remotes/origin/*: name -> commit id
    remoteHeads,    \* branches of the remote repository: name -> commit id
    remoteTags,     \* tags of the remote repository: name -> commit id
    pushInfo,       \* what origin.push returned, call by call (the run discards it)
    today,          \* datetime.date.today() as read by the run, "" before
    trace,          \* the operations the run has performed, in order
    abortedAt,      \* the position at which the run raised, "" if it has not
    start           \* the repository as it was when the run began

vars == <<pc, version, is_prerelease, current_branch, release_branch, head,
          heads, tags, commits, index, file, modified, untracked,
          originExists, originRefs, remoteHeads, remoteTags, pushInfo,
          today, trace, abortedAt, start>>

(***************************************************************************)
(* Strings                                                                 *)
(***************************************************************************)

\* s[i] of a Python str, 1-based
CharAt(s, i) == SubSeq(s, i, i)

\* s[i-1:] of a Python str, 1-based
Suffix(s, i) == SubSeq(s, i, Len(s))

\* c * n for a one-character string c
RECURSIVE Repeat(_, _)
Repeat(c, n) == IF n <= 0 THEN "" ELSE c \o Repeat(c, n - 1)

Digit == {"0", "1", "2", "3", "4", "5", "6", "7", "8", "9"}

NonZeroDigit == Digit \ {"0"}

(***************************************************************************)
(* Regular expressions, as the re module matches them.  A pattern is a     *)
(* tree; Ends(r, s, i) is the set of positions at which a match of r that  *)
(* starts at position i of s can end.                                      *)
(***************************************************************************)

Lit(t) == <<"lit", t>>                \* literal text
Cls(S) == <<"cls", S>>                \* character class
Cat(rs) == <<"cat", rs>>              \* concatenation
Alt(rs) == <<"alt", rs>>              \* a|b|...
Star(r) == <<"star", r>>              \* r*
Opt(r) == <<"opt", r>>                \* r?
Bol == <<"bol">>                      \* ^
Eol == <<"eol">>                      \* $ (end, or before a final newline)

RECURSIVE Ends(_, _, _)
RECURSIVE EndsCat(_, _, _, _)
RECURSIVE EndsStar(_, _, _, _)

Ends(r, s, i) ==
    CASE r[1] = "lit" ->
            IF i + Len(r[2]) - 1 <= Len(s) /\ SubSeq(s, i, i + Len(r[2]) - 1) = r[2]
            THEN {i + Len(r[2])} ELSE {}
      [] r[1] = "cls" ->
            IF i <= Len(s) /\ CharAt(s, i) \in r[2] THEN {i + 1} ELSE {}
      [] r[1] = "cat" -> EndsCat(r[2], 1, s, {i})
      [] r[1] = "alt" -> UNION {Ends(r[2][k], s, i) : k \in DOMAIN r[2]}
      [] r[1] = "star" -> EndsStar(r[2], s, {i}, {i})
      [] r[1] = "opt" -> {i} \cup Ends(r[2], s, i)
      [] r[1] = "bol" -> IF i = 1 THEN {i} ELSE {}
      [] r[1] = "eol" ->
            IF i = Len(s) + 1 \/ (i = Len(s) /\ CharAt(s, i) = "\n")
            THEN {i} ELSE {}

\* the positions reached from the positions I by rs[k], rs[k+1], ...
EndsCat(rs, k, s, I) ==
    IF k > Len(rs) \/ I = {} THEN I
    ELSE EndsCat(rs, k + 1, s, UNION {Ends(rs[k], s, i) : i \in I})

\* the positions reached by zero or more matches of r: seen so far, frontier
EndsStar(r, s, seen, frontier) ==
    LET next == (UNION {Ends(r, s, i) : i \in frontier}) \ seen
    IN  IF next = {} THEN seen ELSE EndsStar(r, s, seen \cup next, next)

\* re.fullmatch(r, s) is not None
FullMatch(r, s) == (Len(s) + 1) \in Ends(r, s, 1)

\* re.match(r, s) is not None
Match(r, s) == Ends(r, s, 1) # {}

(***************************************************************************)
(* Version validation (push_release_commits, lines 19-33)                  *)
(***************************************************************************)

\* [0-9]+ in place of (0|[1-9][0-9]*): leading zeros pass
NumberRegexLeadingZeros == Cat(<<Cls(Digit), Star(Cls(Digit))>>)

\* (0|[1-9][0-9]*)
NumberRegex == Alt(<<Lit("0"), Cat(<<Cls(NonZeroDigit), Star(Cls(Digit))>>)>>)

\* (?P<base>(0|[1-9][0-9]*)\.(0|[1-9][0-9]*)\.(0|[1-9][0-9]*))
BaseRegex == Cat(<<NumberRegex, Lit("."), NumberRegex, Lit("."), NumberRegex>>)

\* (dev|alpha|beta|rc)
ReleaseKinds == Alt(<<Lit("dev"), Lit("alpha"), Lit("beta"), Lit("rc")>>)

\* (?P<prerelease>-(dev|alpha|beta|rc)\.(0|[1-9][0-9]*))
PrereleaseRegex == Cat(<<Lit("-"), ReleaseKinds, Lit("."), NumberRegex>>)

None == "None"

\* re.fullmatch(base + prerelease?, v): whether it matched (is not None) and
\* the text of the two groups (the optional group is greedy: it takes part
\* whenever the match can use it)
version_match(v) ==
    LET withPre == {j \in Ends(BaseRegex, v, 1) :
                        (Len(v) + 1) \in Ends(PrereleaseRegex, v, j)}
    IN  IF withPre # {}
        THEN LET j == CHOOSE k \in withPre : TRUE
             IN  [matched |-> TRUE, base |-> SubSeq(v, 1, j - 1),
                  prerelease |-> Suffix(v, j)]
        ELSE IF FullMatch(BaseRegex, v)
        THEN [matched |-> TRUE, base |-> v, prerelease |-> None]
        ELSE [matched |-> FALSE, base |-> None, prerelease |-> None]

(***************************************************************************)
(* Changelog rewriting (lines 108-190)                                     *)
(***************************************************************************)

\* "^Unreleased$"
UnreleasedRegex == Cat(<<Bol, Lit("Unreleased"), Eol>>)

\* (0|[1-9]\d*); the changelog lines modelled are ASCII, where \d is [0-9]
\* (on other text \d also matches the non-ASCII decimal digits)
AnchorNumberRegex == Alt(<<Lit("0"), Cat(<<Cls(NonZeroDigit), Star(Cls(Digit))>>)>>)

\* (alpha|beta|rc)
AnchorKinds == Alt(<<Lit("alpha"), Lit("beta"), Lit("rc")>>)

\* r"^\.\. _v(0|[1-9]\d*)\.(0|[1-9]\d*)\.(0|[1-9]\d*)(-(alpha|beta|rc)\.(0|[1-9]\d*))?:$"
anchor_regex ==
    Cat(<<Bol, Lit(".. _v"),
          AnchorNumberRegex, Lit("."), AnchorNumberRegex, Lit("."), AnchorNumberRegex,
          Opt(Cat(<<Lit("-"), AnchorKinds, Lit("."), AnchorNumberRegex>>)),
          Lit(":"), Eol>>)

\* f"{version} - {datetime.date.today()}"
version_header_title(v, date) == v \o " - " \o date

\* version_header with the underline of the example in the comment (lines 132-136)
version_header_fixed_underline(v, date) ==
    << "\n",
       ".. _v" \o v \o ":\n",
       "\n",
       version_header_title(v, date) \o "\n",
       "------------------\n" >>

\* textwrap.dedent(f"""...""").splitlines(keepends=True)
version_header(v, date) ==
    << "\n",
       ".. _v" \o v \o ":\n",
       "\n",
       version_header_title(v, date) \o "\n",
       Repeat("-", Len(version_header_title(v, date))) \o "\n" >>

\* ["Unreleased\n", "----------\n", "\n"]
unreleased_header == <<"Unreleased\n", "----------\n", "\n">>

Min(S) == CHOOSE m \in S : \A n \in S : m <= n

Raised(msg) == [ok |-> FALSE, error |-> msg]

Written(content) == [ok |-> TRUE, content |-> content]

\* _update_changelog_unreleased without the test of lines 119-126: the two
\* lines from the first Unreleased line on are replaced whatever the second is
update_changelog_unreleased_unchecked(changelog_content, v, date) ==
    LET found == {i \in 1..Len(changelog_content) :
                      Match(UnreleasedRegex, changelog_content[i])}
    IN  IF found = {}
        THEN Raised("unable to find matching line")
        ELSE LET i == Min(found)
             IN  Written(SubSeq(changelog_content, 1, i - 1)
                         \o version_header(v, date)
                         \o SubSeq(changelog_content, i + 2, Len(changelog_content)))

\* _update_changelog_unreleased on the lines read from the file: the lines it
\* writes back, or the RuntimeError it raises before writing anything
update_changelog_unreleased(changelog_content, v, date) ==
    LET found == {i \in 1..Len(changelog_content) :
                      Match(UnreleasedRegex, changelog_content[i])}
    IN  IF found = {}
        THEN Raised("unable to find matching line")
        ELSE LET i == Min(found)
             IN  IF Len(changelog_content) <= i
                    \/ changelog_content[i + 1] # "----------\n"
                 THEN Raised("section header appears to be malformed")
                 ELSE Written(SubSeq(changelog_content, 1, i - 1)
                              \o version_header(v, date)
                              \o SubSeq(changelog_content, i + 2, Len(changelog_content)))

\* _add_changelog_unreleased with the section placed before the last anchor
\* of the changelog instead of the first
add_changelog_unreleased_last_anchor(changelog_content) ==
    LET stops == {i \in 1..Len(changelog_content) :
                      \/ changelog_content[i] = unreleased_header[1]
                      \/ Match(anchor_regex, changelog_content[i])}
    IN  IF stops = {}
        THEN Raised("unable to find release section to place it before")
        ELSE IF changelog_content[Min(stops)] = unreleased_header[1]
             THEN Raised("Changelog already contains an unreleased section")
             ELSE LET i == CHOOSE k \in stops : \A j \in stops : j <= k
                  IN  Written(SubSeq(changelog_content, 1, i - 1)
                              \o unreleased_header
                              \o SubSeq(changelog_content, i, Len(changelog_content)))

\* _add_changelog_unreleased on the lines read from the file
add_changelog_unreleased(changelog_content) ==
    LET stops == {i \in 1..Len(changelog_content) :
                      \/ changelog_content[i] = unreleased_header[1]
                      \/ Match(anchor_regex, changelog_content[i])}
    IN  IF stops = {}
        THEN Raised("unable to find release section to place it before")
        ELSE LET i == Min(stops)
             IN  IF changelog_content[i] = unreleased_header[1]
                 THEN Raised("Changelog already contains an unreleased section")
                 ELSE Written(SubSeq(changelog_content, 1, i - 1)
                              \o unreleased_header
                              \o SubSeq(changelog_content, i, Len(changelog_content)))

(***************************************************************************)
(* The repository (GitPython's Repo, as push_release_commits uses it)      *)
(***************************************************************************)

NoRefs == [n \in {} |-> 0]

\* refs with name pointing at commit id c
SetRef(refs, name, c) == (name :> c) @@ refs

\* repo.head.commit
HeadCommit == heads[head]

\* repo.is_dirty(): the index differs from HEAD, or the working tree from the index
is_dirty == modified \/ index # commits[HeadCommit].changelog \/ file # index

\* current_branch.path
BranchPath(name) == "refs/heads/" \o name

\* f"release/{version}"
ReleaseBranchName(v) == "release/" \o v

\* repo.index.commit(message): a commit of the index on top of HEAD, which the
\* checked-out branch then points at
CommitIndex(message) ==
    /\ commits' = Append(commits, [parent |-> HeadCommit, message |-> message,
                                   changelog |-> index'])
    /\ heads' = SetRef(heads, head, Len(commits) + 1)

Repository ==
    [head |-> head, heads |-> heads, tags |-> tags, commits |-> commits,
     index |-> index, file |-> file, modified |-> modified,
     untracked |-> untracked, originExists |-> originExists,
     originRefs |-> originRefs, remoteHeads |-> remoteHeads,
     remoteTags |-> remoteTags]

(***************************************************************************)
(* push_release_commits, statement by statement.  sess.error raises, and   *)
(* so does a failing git operation: the run ends where it raised.          *)
(***************************************************************************)

locals == <<version, is_prerelease, current_branch, release_branch, today>>
worktree == <<index, file, modified, untracked>>
localRefs == <<head, heads, tags, commits>>
remote == <<originExists, originRefs, remoteHeads, remoteTags, pushInfo>>

\* an exception leaves the function: nothing after the raising statement runs
Raise ==
    /\ pc' = "aborted"
    /\ abortedAt' = pc

Goto(next) ==
    /\ pc' = next
    /\ UNCHANGED abortedAt

\* lines 19-33
CheckVersion ==
    /\ pc = "check_version"
    /\ IF ~version_match(version).matched
       THEN Raise /\ UNCHANGED is_prerelease
       ELSE /\ is_prerelease' = (version_match(version).prerelease # None)
            /\ Goto("open_repo")
    /\ UNCHANGED <<version, current_branch, release_branch, today, worktree,
                   localRefs, remote, trace, start>>

\* lines 35-37
OpenRepo ==
    /\ pc = "open_repo"
    /\ current_branch' = head
    /\ Goto("check_dirty")
    /\ UNCHANGED <<version, is_prerelease, release_branch, today, worktree,
                   localRefs, remote, trace, start>>

\* lines 39-42
CheckDirty ==
    /\ pc = "check_dirty"
    /\ IF is_dirty THEN Raise ELSE Goto("check_untracked")
    /\ UNCHANGED <<locals, worktree, localRefs, remote, trace, start>>

\* lines 43-47
CheckUntracked ==
    /\ pc = "check_untracked"
    /\ IF untracked THEN Raise ELSE Goto("check_branch")
    /\ UNCHANGED <<locals, worktree, localRefs, remote, trace, start>>

\* CheckBranch asking for main whatever the version
CheckBranchAnyVersion ==
    /\ pc = "check_branch"
    /\ IF BranchPath(current_branch) # "refs/heads/main"
       THEN Raise ELSE Goto("check_remote")
    /\ UNCHANGED <<locals, worktree, localRefs, remote, trace, start>>

\* lines 49-50
CheckBranch ==
    /\ pc = "check_branch"
    /\ IF BranchPath(current_branch) # "refs/heads/main" /\ ~is_prerelease
       THEN Raise ELSE Goto("check_remote")
    /\ UNCHANGED <<locals, worktree, localRefs, remote, trace, start>>

\* lines 52-53
CheckRemote ==
    /\ pc = "check_remote"
    /\ IF ~originExists THEN Raise ELSE Goto("fetch")
    /\ UNCHANGED <<locals, worktree, localRefs, remote, trace, start>>

\* lines 55-56: git fetch origin --tags brings the remote's branches into the
\* remote-tracking refs and the remote's tags into the local tags (a tag the
\* repository already has is kept); it raises when the remote cannot be reached
Fetch ==
    /\ pc = "fetch"
    /\ \E reached \in BOOLEAN :
          IF reached
          THEN /\ originRefs' = remoteHeads @@ originRefs
               /\ tags' = tags @@ remoteTags
               /\ Goto("check_remote_branch")
          ELSE /\ Raise
               /\ UNCHANGED <<originRefs, tags>>
    /\ UNCHANGED <<locals, worktree, head, heads, commits, originExists,
                   remoteHeads, remoteTags, pushInfo, trace, start>>

\* lines 58-59
CheckRemoteBranch ==
    /\ pc = "check_remote_branch"
    /\ IF ReleaseBranchName(version) \in DOMAIN originRefs
       THEN Raise ELSE Goto("check_tag")
    /\ UNCHANGED <<locals, worktree, localRefs, remote, trace, start>>

\* CheckTag without the test of lines 60-61
CheckTagSkipped ==
    /\ pc = "check_tag"
    /\ Goto("update_changelog")
    /\ UNCHANGED <<locals, worktree, localRefs, remote, trace, start>>

\* lines 60-61
CheckTag ==
    /\ pc = "check_tag"
    /\ IF version \in DOMAIN tags THEN Raise ELSE Goto("update_changelog")
    /\ UNCHANGED <<locals, worktree, localRefs, remote, trace, start>>

Dates == {"2020-01-01", "2026-11-03"}

Did(event) == trace' = Append(trace, event)

\* lines 63-70
UpdateChangelog ==
    /\ pc = "update_changelog"
    /\ IF ~is_prerelease
       THEN \E date \in Dates :
               LET result == update_changelog_unreleased(file, version, date)
               IN  IF result.ok
                   THEN /\ file' = result.content
                        /\ today' = date
                        /\ Did("rewrite_changelog")
                        /\ Goto("create_branch")
                   ELSE /\ Raise
                        /\ UNCHANGED <<file, today, trace>>
       ELSE /\ Goto("create_branch")
            /\ UNCHANGED <<file, today, trace>>
    /\ UNCHANGED <<version, is_prerelease, current_branch, release_branch,
                   index, modified, untracked, localRefs, remote, start>>

\* lines 72-74: create_head raises when the branch exists already
CreateBranch ==
    /\ pc = "create_branch"
    /\ \E created \in BOOLEAN :
          IF created /\ ReleaseBranchName(version) \notin DOMAIN heads
          THEN /\ heads' = SetRef(heads, ReleaseBranchName(version), HeadCommit)
               /\ release_branch' = ReleaseBranchName(version)
               /\ head' = ReleaseBranchName(version)
               /\ Did("create_branch")
               /\ Goto("release_commit")
          ELSE /\ Raise
               /\ UNCHANGED <<heads, release_branch, head, trace>>
    /\ UNCHANGED <<version, is_prerelease, current_branch, today, worktree,
                   tags, commits, remote, start>>

\* ReleaseCommit without repo.index.add: the rewritten changelog is not staged
ReleaseCommitUnstaged ==
    /\ pc = "release_commit"
    /\ UNCHANGED <<locals, worktree, head, tags, remote, start>>
    /\ CommitIndex("[auto] Release " \o version)
    /\ Did("commit_release")
    /\ Goto("create_tag")

\* lines 75-77
ReleaseCommit ==
    /\ pc = "release_commit"
    /\ \E committed \in BOOLEAN :
          IF committed
          THEN /\ index' = file
               /\ CommitIndex("[auto] Release " \o version)
               /\ Did("commit_release")
               /\ Goto("create_tag")
          ELSE /\ Raise
               /\ UNCHANGED <<index, commits, heads, trace>>
    /\ UNCHANGED <<locals, file, modified, untracked, head, tags, remote, start>>

\* lines 78-79: create_tag raises when the tag exists already
CreateTag ==
    /\ pc = "create_tag"
    /\ \E created \in BOOLEAN :
          IF created /\ version \notin DOMAIN tags
          THEN /\ tags' = SetRef(tags, version, HeadCommit)
               /\ Did("create_tag")
               /\ Goto("add_unreleased")
          ELSE /\ Raise
               /\ UNCHANGED <<tags, trace>>
    /\ UNCHANGED <<locals, worktree, head, heads, commits, remote, start>>

\* AddUnreleased without the test of line 81
AddUnreleasedAlways ==
    /\ pc = "add_unreleased"
    /\ LET result == add_changelog_unreleased(file)
       IN  IF result.ok
           THEN /\ file' = result.content
                /\ Did("insert_unreleased")
                /\ Goto("post_release_commit")
           ELSE /\ Raise
                /\ UNCHANGED <<file, trace>>
    /\ UNCHANGED <<locals, index, modified, untracked, localRefs, remote, start>>

\* lines 81-82: the RuntimeError is not caught here
AddUnreleased ==
    /\ pc = "add_unreleased"
    /\ IF ~is_prerelease
       THEN LET result == add_changelog_unreleased(file)
            IN  IF result.ok
                THEN /\ file' = result.content
                     /\ Did("insert_unreleased")
                     /\ Goto("post_release_commit")
                ELSE /\ Raise
                     /\ UNCHANGED <<file, trace>>
       ELSE /\ Goto("post_release_commit")
            /\ UNCHANGED <<file, trace>>
    /\ UNCHANGED <<locals, index, modified, untracked, localRefs, remote, start>>

\* PostReleaseCommit made in final releases only
PostReleaseCommitFinalOnly ==
    /\ pc = "post_release_commit"
    /\ IF ~is_prerelease
       THEN /\ index' = file
            /\ CommitIndex("[auto] Post-release " \o version)
            /\ Did("commit_post_release")
       ELSE UNCHANGED <<index, commits, heads, trace>>
    /\ Goto("push_branch")
    /\ UNCHANGED <<locals, file, modified, untracked, head, tags, remote, start>>

\* lines 84-86
PostReleaseCommit ==
    /\ pc = "post_release_commit"
    /\ \E committed \in BOOLEAN :
          IF committed
          THEN /\ index' = file
               /\ CommitIndex("[auto] Post-release " \o version)
               /\ Did("commit_post_release")
               /\ Goto("push_branch")
          ELSE /\ Raise
               /\ UNCHANGED <<index, commits, heads, trace>>
    /\ UNCHANGED <<locals, file, modified, untracked, head, tags, remote, start>>

\* What origin.push(ref) can do.  Remote.push raises only when git produced no
\* per-ref output at all (the remote could not be reached or refused the
\* connection).  When the remote answers and rejects the ref, push returns a
\* PushInfoList whose entry carries the ERROR flag and raises nothing.
PushOutcomes == {"accepted", "rejected", "raised"}

\* lines 88-89: the returned PushInfoList is discarded
PushBranch ==
    /\ pc = "push_branch"
    /\ \E outcome \in PushOutcomes :
          CASE outcome = "accepted" ->
                  /\ remoteHeads' = SetRef(remoteHeads, release_branch, heads[release_branch])
                  /\ originRefs' = SetRef(originRefs, release_branch, heads[release_branch])
                  /\ pushInfo' = Append(pushInfo, [ref |-> release_branch, error |-> FALSE])
                  /\ Did("push_branch")
                  /\ Goto("push_tag")
            [] outcome = "rejected" ->
                  /\ pushInfo' = Append(pushInfo, [ref |-> release_branch, error |-> TRUE])
                  /\ Did("push_branch")
                  /\ Goto("push_tag")
                  /\ UNCHANGED <<remoteHeads, originRefs>>
            [] outcome = "raised" ->
                  /\ Raise
                  /\ UNCHANGED <<remoteHeads, originRefs, pushInfo, trace>>
    /\ UNCHANGED <<locals, worktree, localRefs, originExists, remoteTags, start>>

\* PushTag that pushes nothing
PushTagForgotten ==
    /\ pc = "push_tag"
    /\ Goto("restore_branch")
    /\ UNCHANGED <<locals, worktree, localRefs, remote, trace, start>>

\* line 90
PushTag ==
    /\ pc = "push_tag"
    /\ \E outcome \in PushOutcomes :
          CASE outcome = "accepted" ->
                  /\ remoteTags' = SetRef(remoteTags, version, tags[version])
                  /\ pushInfo' = Append(pushInfo, [ref |-> version, error |-> FALSE])
                  /\ Did("push_tag")
                  /\ Goto("restore_branch")
            [] outcome = "rejected" ->
                  /\ pushInfo' = Append(pushInfo, [ref |-> version, error |-> TRUE])
                  /\ Did("push_tag")
                  /\ Goto("restore_branch")
                  /\ UNCHANGED remoteTags
            [] outcome = "raised" ->
                  /\ Raise
                  /\ UNCHANGED <<remoteTags, pushInfo, trace>>
    /\ UNCHANGED <<locals, worktree, localRefs, originExists, originRefs,
                   remoteHeads, start>>

\* RestoreBranch without the reset of line 94
RestoreBranchNoReset ==
    /\ pc = "restore_branch"
    /\ head' = current_branch
    /\ Did("restore_branch")
    /\ Goto("report")
    /\ UNCHANGED <<locals, worktree, heads, tags, commits, remote, start>>

\* lines 92-94: HEAD back on the original branch, then git reset --hard
RestoreBranch ==
    /\ pc = "restore_branch"
    /\ head' = current_branch
    /\ index' = commits[heads[current_branch]].changelog
    /\ file' = commits[heads[current_branch]].changelog
    /\ modified' = FALSE
    /\ Did("restore_branch")
    /\ Goto("report")
    /\ UNCHANGED <<locals, untracked, heads, tags, commits, remote, start>>

\* lines 96-105
Report ==
    /\ pc = "report"
    /\ Did("report_success")
    /\ Goto("done")
    /\ UNCHANGED <<locals, worktree, localRefs, remote, start>>

(***************************************************************************)
(* Runs of push_release_commits                                            *)
(***************************************************************************)

\* the most earlier releases a generated changelog lists
MaxOldReleases == 1

OldVersions == <<"1.0.0", "0.9.0", "0.8.0", "0.7.0">>

\* the changelog section of an earlier release
OldSection(v) ==
    << ".. _v" \o v \o ":\n", "\n", v \o " - 2020-01-01\n",
       "------------------\n", "\n" >>

\* the sections of the n latest earlier releases, latest first
RECURSIVE OldSections(_, _)
OldSections(k, n) ==
    IF k > n THEN <<>> ELSE OldSection(OldVersions[k]) \o OldSections(k + 1, n)

\* what a changelog may hold for the work in progress
TopSections ==
    { <<"Unreleased\n", "----------\n", "\n", "- Fixed a bug\n", "\n">>,
      <<"Unreleased\n", "---------\n", "\n">>,
      <<"Unreleased\n">>,
      <<"Unreleased\n", "----------\n", "\n", "Unreleased\n", "----------\n", "\n">>,
      <<>> }

\* the changelogs a run starts from
RunDocs ==
    {top \o OldSections(1, n) : top \in TopSections, n \in 0..MaxOldReleases}
    \cup {OldSections(1, n) \o top : top \in TopSections, n \in 1..MaxOldReleases}

\* the version arguments a run is given
RunVersions == {"2.3.0", "1.0.0", "2.3.0-rc.1", "2.3.0-dev.2", "2.3"}

\* the remote before the run: whether it holds the release branch and the tag,
\* and whether the local repository has fetched them yet
RemoteStates ==
    {[branch |-> b, tracked |-> t, tag |-> g] :
        b \in BOOLEAN, t \in BOOLEAN, g \in BOOLEAN}

InitRepo(v, doc, branch) ==
    /\ version = v
    /\ file = doc
    /\ index = doc
    /\ commits = <<[parent |-> 0, message |-> "Initial commit", changelog |-> doc]>>
    /\ head = branch
    /\ is_prerelease = FALSE
    /\ current_branch = ""
    /\ release_branch = ""
    /\ today = ""
    /\ trace = <<>>
    /\ abortedAt = ""
    /\ pushInfo = <<>>

Init ==
    /\ pc = "check_version"
    /\ \E v \in RunVersions, doc \in RunDocs, branch \in {"main", "feature"} :
          /\ InitRepo(v, doc, branch)
          /\ \E localBranch \in BOOLEAN :
                heads = [n \in {"main", branch}
                             \cup (IF localBranch THEN {ReleaseBranchName(v)} ELSE {})
                         |-> 1]
          /\ modified \in BOOLEAN
          /\ untracked \in BOOLEAN
          /\ originExists \in BOOLEAN
          /\ \E r \in RemoteStates, localTag \in BOOLEAN :
                /\ originExists \/ r = [branch |-> FALSE, tracked |-> FALSE, tag |-> FALSE]
                /\ r.tracked => r.branch
                /\ remoteHeads = IF originExists
                                 THEN [n \in {"main"}
                                           \cup (IF r.branch THEN {ReleaseBranchName(v)} ELSE {})
                                       |-> 1]
                                 ELSE NoRefs
                /\ originRefs = IF originExists
                                THEN [n \in {"main"}
                                          \cup (IF r.tracked THEN {ReleaseBranchName(v)} ELSE {})
                                      |-> 1]
                                ELSE NoRefs
                /\ remoteTags = IF r.tag THEN (v :> 1) ELSE NoRefs
                /\ tags = IF localTag THEN (v :> 1) ELSE NoRefs
    /\ start = Repository

Next ==
    \/ CheckVersion
    \/ OpenRepo
    \/ CheckDirty
    \/ CheckUntracked
    \/ CheckBranch
    \/ CheckRemote
    \/ Fetch
    \/ CheckRemoteBranch
    \/ CheckTag
    \/ UpdateChangelog
    \/ CreateBranch
    \/ ReleaseCommit
    \/ CreateTag
    \/ AddUnreleased
    \/ PostReleaseCommit
    \/ PushBranch
    \/ PushTag
    \/ RestoreBranch
    \/ Report

Spec == Init /\ [][Next]_vars

(***************************************************************************)
(* Version validation on its own: CheckVersion on generated arguments      *)
(***************************************************************************)

\* the most digits a generated version component has
MaxDigits == 2

\* the strings of at most n characters over the characters Chars
RECURSIVE Texts(_, _)
Texts(Chars, n) ==
    IF n = 0 THEN {""}
    ELSE Texts(Chars, n - 1) \cup {t \o c : t \in Texts(Chars, n - 1), c \in Chars}

Components == Texts({"0", "1"}, MaxDigits)

KindTexts == {"dev", "alpha", "beta", "rc", "foo", "Rc", ""}

SuffixTexts ==
    {""} \cup {"-" \o k \o sep \o n : k \in KindTexts, sep \in {".", ""}, n \in Components}

VersionCandidates ==
    {a \o "." \o b \o "." \o c \o suffix :
        a \in Components, b \in Components, c \in Components,
        suffix \in {"", "-rc.1", "-dev.01"}}
    \cup {"1.2.3" \o suffix : suffix \in SuffixTexts}
    \cup {"1.2", "01.2.3", "1.2.3-foo.1", "1.2.3-rc", "1.2.3-rc.01", "1.2.3.4",
          "1.2.3\n", " 1.2.3", "v1.2.3", "1.2.3-rc.1-rc.1", "1,2.3", "1.2.3-rc.1 ",
          "", "1.x.3", "1.2.3rc.1", "1.2.3-rc-1", "12.345.6789-beta.100"}

InitVersion ==
    /\ pc = "check_version"
    /\ \E v \in VersionCandidates :
          InitRepo(v, <<"Unreleased\n", "----------\n", "\n">>, "main")
    /\ heads = [n \in {"main"} |-> 1]
    /\ tags = NoRefs
    /\ modified = FALSE
    /\ untracked = FALSE
    /\ originExists = TRUE
    /\ originRefs = [n \in {"main"} |-> 1]
    /\ remoteHeads = [n \in {"main"} |-> 1]
    /\ remoteTags = NoRefs
    /\ start = Repository

SpecVersion == InitVersion /\ [][CheckVersion]_vars

(***************************************************************************)
(* The two changelog functions on their own, on generated changelogs       *)
(***************************************************************************)

\* the most lines a generated changelog has
MaxDocLen == 3

\* lines ending in a newline
LinePool ==
    {"Unreleased\n", "----------\n", "---------\n", ".. _v1.0.0:\n",
     ".. _v1.0.0-dev.1:\n", "- Fixed a bug\n", "\n"}

\* last lines of a file that does not end in a newline
LastLinePool == {"Unreleased", "----------"}

TerminatedDocs(n) == UNION {[1..k -> LinePool] : k \in 0..n}

AllDocs ==
    TerminatedDocs(MaxDocLen)
    \cup {Append(doc, last) : doc \in TerminatedDocs(MaxDocLen - 1), last \in LastLinePool}

FunctionVersions == {"2.3.0", "10.20.30", "2.3.0-rc.1"}

InitChangelog ==
    /\ pc \in {"call_update", "call_add"}
    /\ \E v \in FunctionVersions, doc \in AllDocs : InitRepo(v, doc, "main")
    /\ heads = [n \in {"main"} |-> 1]
    /\ tags = NoRefs
    /\ modified = FALSE
    /\ untracked = FALSE
    /\ originExists = TRUE
    /\ originRefs = [n \in {"main"} |-> 1]
    /\ remoteHeads = [n \in {"main"} |-> 1]
    /\ remoteTags = NoRefs
    /\ start = Repository

\* lines 108-159: read the file, rewrite the header, write the file
CallUpdate ==
    /\ pc = "call_update"
    /\ \E date \in Dates :
          LET result == update_changelog_unreleased(file, version, date)
          IN  IF result.ok
              THEN /\ file' = result.content
                   /\ today' = date
                   /\ pc' = "updated"
              ELSE /\ pc' = "update_raised"
                   /\ UNCHANGED <<file, today>>
    /\ UNCHANGED <<version, is_prerelease, current_branch, release_branch, index,
                   modified, untracked, localRefs, remote, trace, abortedAt, start>>

\* lines 162-190: read the file, insert the section, write the file
CallAdd ==
    /\ pc \in {"call_add", "updated"}
    /\ LET result == add_changelog_unreleased(file)
       IN  IF result.ok
           THEN /\ file' = result.content
                /\ pc' = IF pc = "updated" THEN "updated_added" ELSE "added"
           ELSE /\ pc' = IF pc = "updated" THEN "updated_add_raised" ELSE "add_raised"
                /\ UNCHANGED file
    /\ UNCHANGED <<locals, index, modified, untracked, localRefs, remote, trace,
                   abortedAt, start>>

NextChangelog ==
    \/ CallUpdate
    \/ CallAdd

SpecChangelog == InitChangelog /\ [][NextChangelog]_vars

(***************************************************************************)
(* Properties of a run                                                     *)
(***************************************************************************)

Range(seq) == {seq[i] : i \in DOMAIN seq}

IsPrefix(a, b) == Len(a) <= Len(b) /\ a = SubSeq(b, 1, Len(a))

\* the positions of the precondition checks, before and after the fetch
ChecksBeforeFetch ==
    {"check_version", "check_dirty", "check_untracked", "check_branch", "check_remote"}

ChecksAfterFetch == {"check_remote_branch", "check_tag"}

ValidationPositions ==
    ChecksBeforeFetch \cup ChecksAfterFetch \cup {"open_repo", "fetch"}

ValidVersion == version_match(version).matched

FinalVersion == ValidVersion /\ version_match(version).prerelease = None

PrereleaseVersion == ValidVersion /\ version_match(version).prerelease # None

\* one of the preconditions of the run fails in the repository it starts from
PreconditionFails ==
    \/ ~ValidVersion
    \/ start.modified
    \/ start.untracked
    \/ FinalVersion /\ start.head # "main"
    \/ ~start.originExists
    \/ ReleaseBranchName(version) \in DOMAIN start.remoteHeads \cup DOMAIN start.originRefs
    \/ version \in DOMAIN start.tags \cup DOMAIN start.remoteTags

\* nothing the run could create exists, nothing was written or pushed
NoArtifacts ==
    /\ heads = start.heads
    /\ commits = start.commits
    /\ file = start.file
    /\ index = start.index
    /\ head = start.head
    /\ remoteHeads = start.remoteHeads
    /\ remoteTags = start.remoteTags
    /\ trace = <<>>
    /\ pushInfo = <<>>

\* C1 as stated: a run in which a precondition fails ends aborted and has
\* changed nothing: no branch, commit or tag is new, the changelog is as it
\* was, nothing is pushed and the current branch is the same.
C1_AbortWithoutAnyMutation ==
    PreconditionFails =>
        /\ pc \in ValidationPositions \cup {"aborted"}
        /\ pc = "aborted" => NoArtifacts /\ tags = start.tags

\* C1, amended: a run in which a precondition fails never leaves validation,
\* and creates no branch, no commit and no tag of its own, writes no
\* changelog, pushes nothing and keeps the current branch.  Until the fetch
\* nothing at all has changed; after it the only changes are the fetch's:
\* tags copied from the remote and remote-tracking refs brought up to date.
C1_AbortWithOnlyFetchEffects ==
    PreconditionFails =>
        /\ pc \in ValidationPositions \cup {"aborted"}
        /\ pc = "aborted" => abortedAt \in ChecksBeforeFetch \cup ChecksAfterFetch \cup {"fetch"}
        /\ NoArtifacts
        /\ (pc = "aborted" /\ abortedAt \in ChecksBeforeFetch \cup {"fetch"})
              => tags = start.tags /\ originRefs = start.originRefs
        /\ \A t \in DOMAIN start.tags : t \in DOMAIN tags /\ tags[t] = start.tags[t]
        /\ \A t \in DOMAIN tags \ DOMAIN start.tags :
              t \in DOMAIN start.remoteTags /\ tags[t] = start.remoteTags[t]
        /\ \A b \in DOMAIN originRefs :
              \/ b \in DOMAIN start.remoteHeads /\ originRefs[b] = start.remoteHeads[b]
              \/ b \in DOMAIN start.originRefs /\ originRefs[b] = start.originRefs[b]

\* a run stopped by the tag check after the fetch brought the tag in
C1_Witness ==
    /\ pc = "aborted"
    /\ abortedAt = "check_tag"
    /\ PreconditionFails
    /\ version \notin DOMAIN start.tags
    /\ version \in DOMAIN tags

\* the steps of a run in the order the specification lists them, the
\* Unreleased insertion and the post-release commit in final releases only
StatedSteps(final) ==
    (IF final THEN <<"rewrite_changelog">> ELSE <<>>)
    \o <<"create_branch", "commit_release", "create_tag">>
    \o (IF final THEN <<"insert_unreleased", "commit_post_release">> ELSE <<>>)
    \o <<"push_branch", "push_tag", "restore_branch", "report_success">>

\* the same, with the post-release commit made in every run
ActualSteps(final) ==
    (IF final THEN <<"rewrite_changelog">> ELSE <<>>)
    \o <<"create_branch", "commit_release", "create_tag">>
    \o (IF final THEN <<"insert_unreleased">> ELSE <<>>)
    \o <<"commit_post_release", "push_branch", "push_tag", "restore_branch",
         "report_success">>

\* C2 as stated: a run that reaches Done has performed, once each and in this
\* order: changelog rewrite (final only), branch, release commit, tag,
\* Unreleased insertion and post-release commit (both final only), branch
\* push, tag push, restoration of the original branch, success report.
C2_StatedOrder == pc = "done" => trace = StatedSteps(~is_prerelease)

\* C2, amended: the same order, except that the post-release commit is made
\* in pre-release runs too (only the Unreleased insertion is final-only); at
\* every moment of every run the steps done so far are an initial part of
\* that order, so the tag is never pushed before the branch and the original
\* branch is never restored before both pushes.
C2_ActualOrder ==
    /\ IsPrefix(trace, ActualSteps(~is_prerelease))
    /\ pc = "done" => trace = ActualSteps(~is_prerelease)

C2_Witness == pc = "done" /\ is_prerelease /\ Len(trace) = 8

\* C3: a final release asked for on a branch other than main is rejected with
\* the repository, working tree and remote exactly as they were; a
\* pre-release of the same base version asked for on that branch, the other
\* preconditions holding and the remote reachable, is not stopped by any
\* precondition check and goes on to the side-effect steps.
C3_FinalNeedsMainPrereleaseDoesNot ==
    /\ (FinalVersion /\ start.head # "main") =>
          /\ pc \in {"check_version", "open_repo", "check_dirty", "check_untracked",
                     "check_branch", "aborted"}
          /\ Repository = start
          /\ trace = <<>>
    /\ (PrereleaseVersion /\ start.head # "main" /\ ~PreconditionFails) =>
          (pc = "aborted" => abortedAt \notin (ValidationPositions \ {"fetch"}))

\* a pre-release of 2.3.0 cut from the feature branch has created its branch
C3_Witness ==
    /\ PrereleaseVersion
    /\ version_match(version).base = "2.3.0"
    /\ start.head = "feature"
    /\ pc = "release_commit"
    /\ head = ReleaseBranchName(version)

\* the push of ref raised, or returned with the error flag set
PushFailed(ref, at) ==
    \/ pc = "aborted" /\ abortedAt = at
    \/ \E i \in DOMAIN pushInfo : pushInfo[i].ref = ref /\ pushInfo[i].error

\* C4: when the push of the release branch fails, the run stops there: the
\* tag push is not attempted, the original branch is not restored and success
\* is not reported; when the push of the tag fails, success is not reported.
C4_PushFailureStopsTheRun ==
    /\ PushFailed(release_branch, "push_branch") =>
          /\ pc = "aborted"
          /\ abortedAt = "push_branch"
          /\ "push_tag" \notin Range(trace)
          /\ "restore_branch" \notin Range(trace)
          /\ "report_success" \notin Range(trace)
    /\ PushFailed(version, "push_tag") =>
          /\ pc = "aborted"
          /\ "report_success" \notin Range(trace)

\* the commits the run has made, oldest first
NewCommits == SubSeq(commits, Len(start.commits) + 1, Len(commits))

AfterCommits == {"push_branch", "push_tag", "restore_branch", "report", "done"}

\* C5 as stated: a pre-release run makes no post-release commit: its branch
\* gains the release commit only, and the tag is the head of that branch.
C5_PrereleaseSingleCommit ==
    (is_prerelease /\ pc \in AfterCommits) =>
        /\ \A i \in DOMAIN NewCommits :
              NewCommits[i].message # "[auto] Post-release " \o version
        /\ Len(NewCommits) = 1
        /\ tags[version] = heads[release_branch]

\* C5, amended: a pre-release run skips only the insertion of the Unreleased
\* section; the post-release commit is still made, with the changelog
\* unchanged.  The branch gains two commits, "[auto] Release V" and on top of
\* it "[auto] Post-release V", and the tag points at the first, the parent of
\* the branch head.
C5_PrereleaseTwoCommits ==
    (is_prerelease /\ pc \in AfterCommits) =>
        /\ "insert_unreleased" \notin Range(trace)
        /\ Len(NewCommits) = 2
        /\ NewCommits[1].message = "[auto] Release " \o version
        /\ NewCommits[2].message = "[auto] Post-release " \o version
        /\ NewCommits[1].parent = start.heads[start.head]
        /\ NewCommits[2].changelog = NewCommits[1].changelog
        /\ tags[version] = Len(start.commits) + 1
        /\ heads[release_branch] = Len(start.commits) + 2
        /\ commits[heads[release_branch]].parent = tags[version]

C5_Witness ==
    /\ is_prerelease
    /\ pc = "done"
    /\ release_branch \in DOMAIN remoteHeads
    /\ remoteHeads[release_branch] # tags[version]

\* C6: in a pre-release run the changelog on disk is at every moment, also
\* after a failure, what it was when the run began, and every commit the run
\* makes holds the changelog of the commit the run started from.
C6_PrereleaseLeavesChangelog ==
    is_prerelease =>
        /\ file = start.file
        /\ \A i \in DOMAIN NewCommits :
              NewCommits[i].changelog = start.commits[start.heads[start.head]].changelog

C6_Witness ==
    /\ is_prerelease
    /\ pc \in {"done", "aborted"}
    /\ Len(NewCommits) = 2
    /\ \E i \in DOMAIN start.file : start.file[i] = "Unreleased\n"

\* the lines of doc that are an Unreleased header
UnreleasedLines(doc) == {i \in DOMAIN doc : doc[i] \in {"Unreleased\n", "Unreleased"}}

\* exactly one Unreleased header, with its underline of ten dashes
WellFormedUnreleased(doc) ==
    /\ Cardinality(UnreleasedLines(doc)) = 1
    /\ \A i \in UnreleasedLines(doc) :
          /\ doc[i] = "Unreleased\n"
          /\ i + 1 \in DOMAIN doc
          /\ doc[i + 1] = "----------\n"

\* C7: a final release of V from main, the changelog holding a well-formed
\* Unreleased section, that reaches Done leaves release/V two commits above
\* the starting commit; the tag V is the first, "[auto] Release V", whose
\* changelog has the anchor ".. _vV:" and the header "V - <today>" and no
\* Unreleased header; the branch head, "[auto] Post-release V", holds that
\* changelog with one Unreleased section (three lines) inserted and nothing
\* else changed.
C7_FinalReleaseResult ==
    (pc = "done" /\ ~is_prerelease /\ start.head = "main"
        /\ WellFormedUnreleased(start.file)) =>
        LET first == Len(start.commits) + 1
            tagged == commits[first].changelog
            top == commits[heads[release_branch]].changelog
        IN  /\ release_branch = "release/" \o version
            /\ Len(NewCommits) = 2
            /\ heads[release_branch] = first + 1
            /\ commits[first + 1].parent = first
            /\ commits[first].parent = start.heads["main"]
            /\ tags[version] = first
            /\ commits[first].message = "[auto] Release " \o version
            /\ commits[first + 1].message = "[auto] Post-release " \o version
            /\ \E i \in DOMAIN tagged :
                  /\ tagged[i] = ".. _v" \o version \o ":\n"
                  /\ i + 2 \in DOMAIN tagged
                  /\ tagged[i + 2] = version \o " - " \o today \o "\n"
            /\ UnreleasedLines(tagged) = {}
            /\ Cardinality(UnreleasedLines(top)) = 1
            /\ \E k \in 1..(Len(tagged) + 1) :
                  top = SubSeq(tagged, 1, k - 1)
                        \o <<"Unreleased\n", "----------\n", "\n">>
                        \o SubSeq(tagged, k, Len(tagged))

C7_Witness ==
    /\ pc = "done"
    /\ version = "2.3.0"
    /\ start.head = "main"
    /\ WellFormedUnreleased(start.file)
    /\ Len(start.file) > 5
    /\ version \in DOMAIN remoteTags

\* C8: at Done the branch checked out is the one checked out at the start,
\* it points at the commit it pointed at then (the run's commits are on the
\* release branch only), and index and working tree equal that commit: the
\* changelog on disk is the one the run started from.
C8_DoneRestoresOriginalBranch ==
    pc = "done" =>
        /\ head = start.head
        /\ heads[head] = start.heads[start.head]
        /\ \A b \in DOMAIN start.heads : heads[b] = start.heads[b]
        /\ DOMAIN heads = DOMAIN start.heads \cup {release_branch}
        /\ \A b \in DOMAIN heads \ {release_branch} : heads[b] <= Len(start.commits)
        /\ NewCommits # <<>>
        /\ index = commits[heads[head]].changelog
        /\ file = commits[heads[head]].changelog
        /\ ~modified
        /\ file = start.file

C8_Witness ==
    /\ pc = "done"
    /\ ~is_prerelease
    /\ start.head = "main"
    /\ commits[heads[release_branch]].changelog # start.file

(***************************************************************************)
(* Properties of version validation                                        *)
(***************************************************************************)

\* t is "0" or a run of digits that does not begin with "0"
IsNumberText(t) ==
    /\ Len(t) >= 1
    /\ \A i \in 1..Len(t) :
          SubSeq(t, i, i) \in {"0", "1", "2", "3", "4", "5", "6", "7", "8", "9"}
    /\ Len(t) = 1 \/ SubSeq(t, 1, 1) # "0"

\* t is MAJOR.MINOR.PATCH
IsBaseText(t) ==
    \E i \in 1..Len(t), j \in 1..Len(t) :
        /\ i < j
        /\ SubSeq(t, i, i) = "."
        /\ SubSeq(t, j, j) = "."
        /\ IsNumberText(SubSeq(t, 1, i - 1))
        /\ IsNumberText(SubSeq(t, i + 1, j - 1))
        /\ IsNumberText(SubSeq(t, j + 1, Len(t)))

\* t is -KIND.N
IsPrereleaseText(t) ==
    \E kind \in {"dev", "alpha", "beta", "rc"} :
        /\ Len(t) > Len(kind) + 2
        /\ SubSeq(t, 1, Len(kind) + 2) = "-" \o kind \o "."
        /\ IsNumberText(SubSeq(t, Len(kind) + 3, Len(t)))

IsFinalVersionText(t) == IsBaseText(t)

IsPrereleaseVersionText(t) ==
    \E cut \in 1..Len(t) :
        /\ IsBaseText(SubSeq(t, 1, cut))
        /\ cut < Len(t)
        /\ IsPrereleaseText(SubSeq(t, cut + 1, Len(t)))

\* C9: validation lets through exactly the strings MAJOR.MINOR.PATCH and
\* MAJOR.MINOR.PATCH-KIND.N (numbers without leading zero, KIND one of dev,
\* alpha, beta, rc), rejects every other string with a fatal error that
\* changes nothing, and treats as pre-release exactly the accepted strings
\* that carry the -KIND.N suffix.
C9_VersionGrammar ==
    pc # "check_version" =>
        /\ pc = "aborted"
              <=> ~(IsFinalVersionText(version) \/ IsPrereleaseVersionText(version))
        /\ pc = "aborted" => abortedAt = "check_version" /\ Repository = start
        /\ pc # "aborted" => (is_prerelease <=> IsPrereleaseVersionText(version))

C9_Witness ==
    /\ pc = "open_repo"
    /\ is_prerelease
    /\ version = "1.2.3-dev.10"

(***************************************************************************)
(* Properties of the changelog functions                                   *)
(***************************************************************************)

\* a line without the newline that ends it
LineText(line) ==
    IF Len(line) > 0 /\ SubSeq(line, Len(line), Len(line)) = "\n"
    THEN SubSeq(line, 1, Len(line) - 1)
    ELSE line

\* line is header followed by an underline of as many dashes, and a newline
IsUnderlineOf(line, header) ==
    /\ Len(line) = Len(header) + 1
    /\ \A k \in 1..Len(header) : SubSeq(line, k, k) = "-"
    /\ SubSeq(line, Len(line), Len(line)) = "\n"

\* after is before with the two lines at i, i + 1 replaced by the five lines
\* of the release of v on date
ReplacedAt(before, after, i, v, date) ==
    /\ Len(after) = Len(before) + 3
    /\ SubSeq(after, 1, i - 1) = SubSeq(before, 1, i - 1)
    /\ after[i] = "\n"
    /\ after[i + 1] = ".. _v" \o v \o ":\n"
    /\ after[i + 2] = "\n"
    /\ after[i + 3] = v \o " - " \o date \o "\n"
    /\ IsUnderlineOf(after[i + 4], v \o " - " \o date)
    /\ SubSeq(after, i + 5, Len(after)) = SubSeq(before, i + 2, Len(before))

\* the places of doc where a line "Unreleased" is followed by a line "----------"
UnreleasedPairs(doc) ==
    {i \in 1..(Len(doc) - 1) :
        LineText(doc[i]) = "Unreleased" /\ LineText(doc[i + 1]) = "----------"}

\* C10 as stated: on a changelog that contains the line pair Unreleased /
\* ----------, _update_changelog_unreleased replaces those two lines by the
\* blank line, the anchor, a blank line, the header "V - D" and its underline
\* of the same length, and keeps every other line.
C10_RewritesAnyPair ==
    (pc \in {"updated", "update_raised"} /\ UnreleasedPairs(start.file) # {}) =>
        /\ pc = "updated"
        /\ \E i \in UnreleasedPairs(start.file) :
              ReplacedAt(start.file, file, i, version, today)

\* C10, amended: the same, on a changelog whose first Unreleased line is
\* immediately followed by the line "----------" ended by a newline; it is
\* that first pair which is replaced.
C10_RewritesFirstPair ==
    LET firsts == {i \in UnreleasedLines(start.file) :
                      \A j \in UnreleasedLines(start.file) : i <= j}
    IN  \A i \in firsts :
            (pc \in {"updated", "update_raised"}
                /\ i + 1 \in DOMAIN start.file
                /\ start.file[i + 1] = "----------\n") =>
                /\ pc = "updated"
                /\ ReplacedAt(start.file, file, i, version, today)

C10_Witness ==
    /\ pc = "updated"
    /\ version = "10.20.30"
    /\ Len(start.file) = 3
    /\ start.file[2] = "Unreleased\n"
    /\ Len(file) = 6

(***************************************************************************)
(* Properties of a run that fails after validation                         *)
(***************************************************************************)

\* the run came through every precondition check and the fetch
PassedValidation ==
    /\ pc \notin ValidationPositions
    /\ pc = "aborted" => abortedAt \notin ValidationPositions

\* doc has no Unreleased line, or its (first) Unreleased line is not followed
\* at once by a line of exactly ten dashes
MalformedUnreleased(doc) ==
    \/ UnreleasedLines(doc) = {}
    \/ \E i \in UnreleasedLines(doc) :
          /\ \A j \in UnreleasedLines(doc) : i <= j
          /\ i + 1 \notin DOMAIN doc \/ LineText(doc[i + 1]) # "----------"

\* C11: in a final release on a changelog without an Unreleased line, or
\* whose Unreleased line is not followed at once by an underline of exactly
\* ten dashes (other length, other line, end of file), the rewrite fails, the
\* run ends there, the changelog on disk is what it was, and the run has
\* created no branch, no commit and no tag.
C11_MalformedSectionAborts ==
    (PassedValidation /\ pc # "update_changelog" /\ ~is_prerelease
        /\ MalformedUnreleased(start.file)) =>
        /\ pc = "aborted"
        /\ abortedAt = "update_changelog"
        /\ file = start.file
        /\ index = start.index
        /\ heads = start.heads
        /\ head = start.head
        /\ commits = start.commits
        /\ version \notin DOMAIN tags
        /\ trace = <<>>

\* a final release stopped by an underline of nine dashes
C11_Witness ==
    /\ pc = "aborted"
    /\ abortedAt = "update_changelog"
    /\ \E i \in DOMAIN start.file :
          /\ start.file[i] = "Unreleased\n"
          /\ i + 1 \in DOMAIN start.file
          /\ start.file[i + 1] = "---------\n"

(***************************************************************************)
(* Properties of _add_changelog_unreleased                                 *)
(***************************************************************************)

\* line is the anchor ".. _vV:" of a version V that validation accepts
IsVersionAnchorLine(line) ==
    LET text == LineText(line)
    IN  /\ Len(text) > 6
        /\ SubSeq(text, 1, 5) = ".. _v"
        /\ SubSeq(text, Len(text), Len(text)) = ":"
        /\ LET v == SubSeq(text, 6, Len(text) - 1)
           IN  IsFinalVersionText(v) \/ IsPrereleaseVersionText(v)

VersionAnchorLines(doc) == {i \in DOMAIN doc : IsVersionAnchorLine(doc[i])}

\* after is before with the three lines Unreleased, ----------, blank put in
\* front of line i
InsertedAt(before, after, i) ==
    /\ Len(after) = Len(before) + 3
    /\ SubSeq(after, 1, i - 1) = SubSeq(before, 1, i - 1)
    /\ after[i] = "Unreleased\n"
    /\ after[i + 1] = "----------\n"
    /\ after[i + 2] = "\n"
    /\ SubSeq(after, i + 3, Len(after)) = SubSeq(before, i, Len(before))

\* C12: on a changelog with at least one version anchor and no Unreleased
\* header, _add_changelog_unreleased puts the lines Unreleased, ----------,
\* blank right before the first version anchor, keeps every other line in
\* place and order, and the result has exactly one Unreleased header; on a
\* changelog without any version anchor it fails and writes nothing.
C12_InsertsBeforeFirstAnchor ==
    pc \in {"added", "add_raised"} =>
        /\ (VersionAnchorLines(start.file) # {} /\ UnreleasedLines(start.file) = {}) =>
              /\ pc = "added"
              /\ InsertedAt(start.file, file, Min(VersionAnchorLines(start.file)))
              /\ Cardinality(UnreleasedLines(file)) = 1
        /\ VersionAnchorLines(start.file) = {} =>
              /\ pc = "add_raised"
              /\ file = start.file

\* C13: _add_changelog_unreleased on a changelog that already has an
\* Unreleased header line, wherever it stands (before or after the first
\* version anchor), fails and leaves the changelog as it was; so a changelog
\* with at most one Unreleased header never has two after the call.
C13_ExistingHeaderRefused ==
    pc \in {"added", "add_raised"} =>
        /\ UnreleasedLines(start.file) # {} =>
              /\ pc = "add_raised"
              /\ file = start.file
        /\ Cardinality(UnreleasedLines(start.file)) <= 1 =>
              Cardinality(UnreleasedLines(file)) <= 1

(***************************************************************************)
(* _update_changelog_unreleased followed by _add_changelog_unreleased      *)
(***************************************************************************)

\* doc has exactly one Unreleased section, well formed, above every anchor
UnreleasedOnTop(doc) ==
    /\ WellFormedUnreleased(doc)
    /\ \A i \in UnreleasedLines(doc) : \A j \in VersionAnchorLines(doc) : i < j

\* after is before with the two lines at i, i + 1 replaced by a blank line,
\* a new Unreleased section, and the anchor and dated header of v
RoundTripAt(before, after, i, v, date) ==
    /\ Len(after) = Len(before) + 6
    /\ SubSeq(after, 1, i - 1) = SubSeq(before, 1, i - 1)
    /\ after[i] = "\n"
    /\ after[i + 1] = "Unreleased\n"
    /\ after[i + 2] = "----------\n"
    /\ after[i + 3] = "\n"
    /\ after[i + 4] = ".. _v" \o v \o ":\n"
    /\ after[i + 5] = "\n"
    /\ after[i + 6] = v \o " - " \o date \o "\n"
    /\ IsUnderlineOf(after[i + 7], v \o " - " \o date)
    /\ SubSeq(after, i + 8, Len(after)) = SubSeq(before, i + 2, Len(before))

\* C14: on a changelog with exactly one well-formed Unreleased section that
\* stands above every version anchor, for a final version V and a date D,
\* _update_changelog_unreleased(V) followed by _add_changelog_unreleased both
\* succeed and give the original document with the anchor and dated header
\* of V where the Unreleased pair was and a new Unreleased section right
\* above the anchor ".. _vV:" (not above an older anchor).
C14_RoundTrip ==
    (pc \in {"update_raised", "updated_add_raised", "updated_added"}
        /\ UnreleasedOnTop(start.file)
        /\ IsFinalVersionText(version)) =>
        /\ pc = "updated_added"
        /\ \A i \in UnreleasedLines(start.file) :
              RoundTripAt(start.file, file, i, version, today)

\* the round trip on a changelog that has an older release below Unreleased
C14_Witness ==
    /\ pc = "updated_added"
    /\ UnreleasedOnTop(start.file)
    /\ IsFinalVersionText(version)
    /\ VersionAnchorLines(start.file) # {}

(***************************************************************************)
(* Failures after validation                                               *)
(***************************************************************************)

\* the steps of lines 72-90 and the event each leaves in the trace
StepEvent ==
    [create_branch |-> "create_branch",
     release_commit |-> "commit_release",
     create_tag |-> "create_tag",
     add_unreleased |-> "insert_unreleased",
     post_release_commit |-> "commit_post_release",
     push_branch |-> "push_branch",
     push_tag |-> "push_tag"]

\* the step at position at has failed
StepFailed(at) ==
    CASE at = "push_branch" -> PushFailed(release_branch, at)
      [] at = "push_tag" -> PushFailed(version, at)
      [] OTHER -> pc = "aborted" /\ abortedAt = at

\* the events that come after event in a run
EventsAfter(event) ==
    LET steps == ActualSteps(~is_prerelease)
    IN  {steps[j] : j \in {k \in DOMAIN steps :
                              \E i \in DOMAIN steps : steps[i] = event /\ i < k}}

\* the branch, the commits and the tag the run has created are still there
CreatedRefsKept ==
    /\ "create_branch" \in Range(trace) =>
          /\ ReleaseBranchName(version) \in DOMAIN heads
          /\ head = ReleaseBranchName(version)
    /\ IsPrefix(start.commits, commits)
    /\ Len(commits) - Len(start.commits) =
          Cardinality(Range(trace) \cap {"commit_release", "commit_post_release"})
    /\ "create_tag" \in Range(trace) => version \in DOMAIN tags

\* C15: when branch creation, a commit, tag creation, the Unreleased
\* insertion or a push fails, the run ends Aborted at that step, no later
\* step is executed (the original branch is not restored, success is not
\* reported), and the branch, commits and tag the run had created before are
\* all still there.
C15_FailureIsTerminalWithoutRollback ==
    \A at \in DOMAIN StepEvent :
        StepFailed(at) =>
            /\ pc = "aborted"
            /\ abortedAt = at
            /\ Range(trace) \cap EventsAfter(StepEvent[at]) = {}
            /\ CreatedRefsKept

(***************************************************************************)
(* The anchors _add_changelog_unreleased recognises                        *)
(***************************************************************************)

\* line is the anchor of a version with the suffix -dev.N
IsDevAnchorLine(line) ==
    /\ IsVersionAnchorLine(line)
    /\ \E k \in 1..Len(line) :
          k + 4 <= Len(line) /\ SubSeq(line, k, k + 4) = "-dev."

\* C16: the lines _add_changelog_unreleased takes for a version anchor are
\* exactly the lines ".. _vV:" with V a version that validation accepts,
\* final or with a suffix of kind dev, alpha, beta or rc; in particular a
\* changelog (without Unreleased header) whose first anchor is the anchor of
\* a -dev.N version gets the Unreleased section right before that anchor.
C16_AnchorsAreValidVersions ==
    /\ \A i \in DOMAIN start.file :
          Match(anchor_regex, start.file[i]) <=> IsVersionAnchorLine(start.file[i])
    /\ (/\ pc \in {"added", "add_raised"}
        /\ UnreleasedLines(start.file) = {}
        /\ VersionAnchorLines(start.file) # {}
        /\ IsDevAnchorLine(start.file[Min(VersionAnchorLines(start.file))])) =>
          /\ pc = "added"
          /\ InsertedAt(start.file, file, Min(VersionAnchorLines(start.file)))

\* C17: a run that ends Aborted without having created the branch
\* release/<version> leaves the changelog on disk as it was at the start of
\* the run; so also when every precondition passes and the creation of the
\* branch fails because a local branch of that name exists already.
C17_AbortBeforeBranchKeepsChangelog ==
    (pc = "aborted" /\ "create_branch" \notin Range(trace)) => file = start.file

====
